---------------------------- MODULE Spec2Model ----------------------------
(***************************************************************************)
(* Model of the wallet-exposure-advisor pipeline: the analyze-wallet       *)
(* handler (src/src/lib/agent.ts, second revision, lines 310-461), the     *)
(* portfolio analyzer (analyzePortfolio, categorizeToken,                  *)
(* calculateRiskLevel, lines 505-564), the advice (generateAdvice,          *)
(* generateFallbackAdvice, lines 566-657) and the balance sources they      *)
(* read; the per-chain fetches of getAllEVMWalletBalances                   *)
(* (src/unnamed/part_001, lines 522-549) settle one by one, in any order.   *)
(*                                                                         *)
(* Number representation                                                   *)
(*   token amounts  : integers, unit 0.001 token                           *)
(*   prices         : integers, unit 0.01 USD (cent)                       *)
(*   USD values     : integers, unit 0.00001 USD (amount x price)          *)
(*   percentages    : exact fractions [num, den] (JavaScript computes them *)
(*                    in binary floating point; the rounding error of a    *)
(*                    double, about 1e-14, is far below every tolerance    *)
(*                    and threshold gap the model can produce)             *)
(*   decimal strings: [int, frac], the digits before and after the point   *)
(***************************************************************************)
EXTENDS Integers, Sequences, FiniteSets, TLC

VARIABLES
    pc,                 \* position of the analyze-wallet handler
    chain,              \* ctx.input.chain
    address,            \* ctx.input.address: its prefix and its length
    addressIsStarknet,  \* address.startsWith("0x") && address.length > 42
    priceSource,        \* what the price source did with each call
    ethPrice,           \* result of getEthPrice()
    promises,           \* per chain, the outcome of getEVMWalletBalances
    allResults,         \* the values Promise.all has collected, per chain
    settledOutOfOrder,  \* a fetch settled before one of an earlier chain
    evmBalances,        \* result of getAllEVMWalletBalances / getEVMWalletBalances
    balanceOf,          \* per Starknet token, what contract.balanceOf answered
    starknetError,      \* message of the Error the Starknet step raised
    starknetBalances,   \* tokenBalances of getStarknetWalletBalances
    tokenPrices,        \* result of getTokenPrices
    holdings,           \* the handler's local `holdings`
    aggregatedHoldings, \* values of the Map, in insertion order
    finalHoldings,      \* the array handed to analyzePortfolio
    analysis,           \* result of analyzePortfolio in the handler
    llm,                \* what generateText did
    advice,             \* result of generateAdvice in the handler
    error,              \* message of the Error the handler raised
    call                \* a direct call of an exported or module function

vars == <<pc, chain, address, addressIsStarknet, priceSource, ethPrice, promises,
          allResults, settledOutOfOrder, evmBalances, balanceOf, starknetError,
          starknetBalances, tokenPrices, holdings, aggregatedHoldings, finalHoldings,
          analysis, llm, advice, error, call>>

-----------------------------------------------------------------------------
(* Sequences *)

Range(s) == {s[i] : i \in 1..Len(s)}

\* Array.prototype.reduce((sum, x) => sum + f(x), 0)
SumOver(s, F(_)) ==
    LET acc[i \in 0..Len(s)] == IF i = 0 THEN 0 ELSE acc[i - 1] + F(s[i])
    IN acc[Len(s)]

RECURSIVE SeqsUpTo(_, _)
\* all sequences over S of length at most n
SeqsUpTo(S, n) ==
    IF n = 0 THEN {<<>>}
    ELSE LET shorter == SeqsUpTo(S, n - 1)
         IN shorter \cup {Append(s, x) : s \in {t \in shorter : Len(t) = n - 1}, x \in S}

-----------------------------------------------------------------------------
(* Decimal strings and numbers *)

RECURSIVE DigitsToNat(_)
DigitsToNat(ds) ==
    IF ds = <<>> THEN 0
    ELSE 10 * DigitsToNat(SubSeq(ds, 1, Len(ds) - 1)) + ds[Len(ds)]

RECURSIVE NatToDigits(_)
NatToDigits(n) ==
    IF n < 10 THEN <<n>> ELSE Append(NatToDigits(n \div 10), n % 10)

RECURSIVE StripTrailingZeros(_)
StripTrailingZeros(ds) ==
    IF ds # <<>> /\ ds[Len(ds)] = 0
    THEN StripTrailingZeros(SubSeq(ds, 1, Len(ds) - 1))
    ELSE ds

\* the decimal text int.frac (no point when frac is empty)
Dec(int, frac) == [int |-> int, frac |-> frac]

\* parseFloat of a decimal string, in units of 0.001.  Exact for the strings
\* the model draws: their digits after the third fractional one are zeros.
parseFloat(s) ==
    LET f == s.frac \o <<0, 0, 0>>
    IN DigitsToNat(s.int) * 1000 + DigitsToNat(SubSeq(f, 1, 3))

\* Number.prototype.toString of an amount n (unit 0.001): the shortest
\* decimal text, without trailing zeros
numberToString(n) ==
    LET m == n % 1000
        f == <<m \div 100, (m \div 10) % 10, m % 10>>
    IN Dec(NatToDigits(n \div 1000), StripTrailingZeros(f))

-----------------------------------------------------------------------------
(* advisor: categorizeToken, calculateRiskLevel, analyzePortfolio *)

\* 0.01 USD
DustThreshold == 1000

stablecoins == <<"USDC", "USDT", "DAI", "FRAX", "LUSD", "USDbC", "BUSD">>
natives == <<"ETH", "STRK", "BTC", "WBTC", "WETH">>
defi == <<"AAVE", "UNI", "LINK", "CRV", "LDO", "ARB", "OP", "MKR", "COMP">>

\* Array.prototype.includes
includes(list, x) == \E i \in 1..Len(list) : list[i] = x

\* categorizeToken with the declared value "other" as the default
categorizeTokenOther(symbol) ==
    IF includes(stablecoins, symbol) THEN "stablecoin"
    ELSE IF includes(natives, symbol) THEN "native"
    ELSE IF includes(defi, symbol) THEN "defi"
    ELSE "other"

categorizeToken(symbol) ==
    IF includes(stablecoins, symbol) THEN "stablecoin"
    ELSE IF includes(natives, symbol) THEN "native"
    ELSE IF includes(defi, symbol) THEN "defi"
    ELSE "volatile"

\* percentages are fractions num/den
Pct(num, den) == [num |-> num, den |-> den]
PctGe(p, k) == p.num >= k * p.den
PctGt(p, k) == p.num > k * p.den
PctLt(p, k) == p.num < k * p.den

\* calculateRiskLevel with the concentration test of the medium tier left out
calculateRiskLevelNoConcentration(stablecoinPct, concentrationRisk) ==
    IF PctGe(stablecoinPct, 50) THEN "low"
    ELSE IF PctGe(stablecoinPct, 30) THEN "medium"
    ELSE IF PctGe(stablecoinPct, 10) THEN "high"
    ELSE "very-high"

calculateRiskLevel(stablecoinPct, concentrationRisk) ==
    IF PctGe(stablecoinPct, 50) THEN "low"
    ELSE IF PctGe(stablecoinPct, 30) /\ ~concentrationRisk THEN "medium"
    ELSE IF PctGe(stablecoinPct, 10) THEN "high"
    ELSE "very-high"

\* Array.prototype.filter
filter(s, P(_)) ==
    LET acc[i \in 0..Len(s)] ==
            IF i = 0 THEN <<>>
            ELSE IF P(s[i]) THEN Append(acc[i - 1], s[i]) ELSE acc[i - 1]
    IN acc[Len(s)]

RECURSIVE InsertByValueDescBeforeTies(_, _)
\* the insertion that puts x before the elements of equal valueUsd
InsertByValueDescBeforeTies(sorted, x) ==
    IF sorted = <<>> THEN <<x>>
    ELSE IF Head(sorted).valueUsd > x.valueUsd
         THEN <<Head(sorted)>> \o InsertByValueDescBeforeTies(Tail(sorted), x)
         ELSE <<x>> \o sorted

RECURSIVE InsertByValueDesc(_, _)
\* x goes after every element whose valueUsd is not smaller
InsertByValueDesc(sorted, x) ==
    IF sorted = <<>> THEN <<x>>
    ELSE IF Head(sorted).valueUsd >= x.valueUsd
         THEN <<Head(sorted)>> \o InsertByValueDesc(Tail(sorted), x)
         ELSE <<x>> \o sorted

\* the rows left in the order of the input
inInputOrder(s) == s

RECURSIVE sortByValueDesc(_)
\* Array.prototype.sort((a, b) => b.valueUsd - a.valueUsd): stable
sortByValueDesc(s) ==
    IF s = <<>> THEN <<>>
    ELSE InsertByValueDesc(sortByValueDesc(SubSeq(s, 1, Len(s) - 1)), s[Len(s)])

\* the denominator without the test of the total
PctDenUnguarded(totalValueUsd) == totalValueUsd

\* the denominator shared by the percentages of one report
PctDen(totalValueUsd) == IF totalValueUsd > 0 THEN totalValueUsd ELSE 1

\* reduce((sum, h) => sum + h.percentage, 0) over holdings of one report
SumPct(hs, totalValueUsd) ==
    LET num(h) == h.percentage.num
    IN Pct(SumOver(hs, num), PctDen(totalValueUsd))

\* the dust filter with >= for >
IsDustFreeInclusive(h) == h.valueUsd >= DustThreshold

\* line 533: .filter((h) => h.valueUsd > 0.01)
IsDustFree(h) == h.valueUsd > DustThreshold

\* line 538
percentageOf(valueUsd, totalValueUsd) ==
    IF totalValueUsd > 0 THEN Pct(100 * valueUsd, totalValueUsd) ELSE Pct(0, 1)

\* the concentration test with >= for >
isConcentratedFrom50(h) == PctGe(h.percentage, 50)

\* line 552: (h) => h.percentage > 50
isConcentrated(h) == PctGt(h.percentage, 50)

isStablecoin(h) == h.category = "stablecoin"
isNotStablecoin(h) == h.category # "stablecoin"

analyzePortfolio(hs) ==
    LET value(h) == h.valueUsd
        totalValueUsd == SumOver(hs, value)
        enrich(h) ==
            [symbol |-> h.symbol,
             balance |-> h.balance,
             valueUsd |-> h.valueUsd,
             percentage |-> percentageOf(h.valueUsd, totalValueUsd),
             category |-> categorizeToken(h.symbol)]
        kept == filter(hs, IsDustFree)
        enrichedHoldings == sortByValueDesc([i \in 1..Len(kept) |-> enrich(kept[i])])
        stablecoinPercentage ==
            SumPct(filter(enrichedHoldings, isStablecoin), totalValueUsd)
        volatilePercentage ==
            SumPct(filter(enrichedHoldings, isNotStablecoin), totalValueUsd)
        concentrationRisk ==
            \E i \in 1..Len(enrichedHoldings) : isConcentrated(enrichedHoldings[i])
    IN [totalValueUsd |-> totalValueUsd,
        holdings |-> enrichedHoldings,
        riskLevel |-> calculateRiskLevel(stablecoinPercentage, concentrationRisk),
        stablecoinPercentage |-> stablecoinPercentage,
        volatilePercentage |-> volatilePercentage,
        concentrationRisk |-> concentrationRisk]

-----------------------------------------------------------------------------
(* evm: the chains and what getEVMWalletBalances returns *)

\* Object.keys(BLOCKSCOUT_APIS) followed by Object.keys(RPC_FALLBACK_CHAINS)
ALL_EVM_CHAINS ==
    <<"ethereum", "arbitrum", "base", "optimism", "polygon", "gnosis", "hyperliquid">>

\* nativeSymbol of BLOCKSCOUT_APIS and RPC_FALLBACK_CHAINS
nativeSymbol(chainName) ==
    CASE chainName = "polygon" -> "POL"
      [] chainName = "gnosis" -> "xDAI"
      [] OTHER -> "ETH"

\* a TokenBalance: usdPrice 0 stands for undefined
Token(symbol, formattedBalance, usdPrice) ==
    [symbol |-> symbol, formattedBalance |-> formattedBalance, usdPrice |-> usdPrice]

\* the WalletBalances that fetchBlockscoutBalances / fetchRpcBalances build
WalletBalances(chainName, nativeFormatted, tokenBalances) ==
    [chain |-> chainName,
     nativeBalance |-> Token(nativeSymbol(chainName), nativeFormatted, 0),
     tokenBalances |-> tokenBalances]

\* a promise that has not settled
Pending == [status |-> "pending"]
\* a fetch that has not been issued
Unissued == [status |-> "unissued"]
\* the value of the wrapper of a fetch that raised (part_001 line 536)
Null == [null |-> TRUE]

-----------------------------------------------------------------------------
(* starknet: token list, formatBalance, getStarknetWalletBalances *)

STARKNET_TOKENS ==
    <<[symbol |-> "ETH", decimals |-> 18],
      [symbol |-> "STRK", decimals |-> 18],
      [symbol |-> "USDC", decimals |-> 6],
      [symbol |-> "USDT", decimals |-> 6],
      [symbol |-> "DAI", decimals |-> 18],
      [symbol |-> "WBTC", decimals |-> 8],
      [symbol |-> "tBTC", decimals |-> 18],
      [symbol |-> "wstETH", decimals |-> 18],
      [symbol |-> "xSTRK", decimals |-> 18],
      [symbol |-> "LORDS", decimals |-> 18],
      [symbol |-> "SURVIVOR", decimals |-> 18],
      [symbol |-> "BROTHER", decimals |-> 18],
      [symbol |-> "DREAMS", decimals |-> 18]>>

Zeros(n) == [i \in 1..n |-> 0]

Min(a, b) == IF a < b THEN a ELSE b

\* balance is a bigint, given by its decimal digits (no leading zero)
formatBalance(balance, decimals) ==
    LET integerPart ==
            IF Len(balance) > decimals
            THEN SubSeq(balance, 1, Len(balance) - decimals)
            ELSE <<0>>
        padded == Zeros(decimals) \o balance
        \* (balance % divisor).toString().padStart(decimals, "0")
        fractionalStr == SubSeq(padded, Len(padded) - decimals + 1, Len(padded))
    IN Dec(integerPart, SubSeq(fractionalStr, 1, Min(6, decimals)))

\* balances[i] is what balanceOf answered for STARKNET_TOKENS[i]: the digits
\* of a bigint, or <<>> when the call raised (the token is skipped)
getStarknetWalletBalances(balances) ==
    LET acc[i \in 0..Len(STARKNET_TOKENS)] ==
            IF i = 0 THEN <<>>
            ELSE IF balances[i] # <<>> /\ balances[i] # <<0>>
                 THEN Append(acc[i - 1],
                             Token(STARKNET_TOKENS[i].symbol,
                                   formatBalance(balances[i], STARKNET_TOKENS[i].decimals),
                                   0))
                 ELSE acc[i - 1]
    IN acc[Len(STARKNET_TOKENS)]

-----------------------------------------------------------------------------
(* the analyze-wallet handler *)

\* holding.chain of a holding built without a chain field
Undefined == "<undefined>"

Holding(symbol, balance, valueUsd, chainLabel) ==
    [symbol |-> symbol, balance |-> balance, valueUsd |-> valueUsd, chain |-> chainLabel]

\* 1 USD, in cents
StablePrice == 100
\* 0.35 USD
ArbPrice == 35
\* 20 USD
HypePrice == 2000

evmPrice(symbol, eth) ==
    IF includes(<<"USDC", "USDT", "DAI", "USDbC">>, symbol) THEN StablePrice
    ELSE IF symbol = "WETH" THEN eth
    ELSE IF symbol = "ARB" THEN ArbPrice
    ELSE IF symbol = "HYPE" THEN HypePrice
    ELSE 0

processEVMBalances(balances, eth, chainLabel) ==
    LET nativeValueUsd == parseFloat(balances.nativeBalance.formattedBalance) * eth
        native ==
            IF nativeValueUsd > DustThreshold
            THEN <<Holding("ETH", balances.nativeBalance.formattedBalance,
                           nativeValueUsd, chainLabel)>>
            ELSE <<>>
        tokens == balances.tokenBalances
        acc[i \in 0..Len(tokens)] ==
            IF i = 0 THEN native
            ELSE LET valueUsd == parseFloat(tokens[i].formattedBalance)
                                     * evmPrice(tokens[i].symbol, eth)
                 IN IF valueUsd > DustThreshold
                    THEN Append(acc[i - 1],
                                Holding(tokens[i].symbol, tokens[i].formattedBalance,
                                        valueUsd, chainLabel))
                    ELSE acc[i - 1]
    IN acc[Len(tokens)]

\* prices is the Map of getTokenPrices, keyed by the token (its address):
\* a function from the symbols that have an entry to their price
starknetPrice(symbol, eth, prices) ==
    IF symbol = "ETH" THEN eth
    ELSE IF includes(<<"USDC", "USDT", "DAI">>, symbol) THEN StablePrice
    ELSE IF symbol \in DOMAIN prices THEN prices[symbol]
    ELSE 0

starknetValueUsd(token, eth, prices) ==
    parseFloat(token.formattedBalance) * starknetPrice(token.symbol, eth, prices)

\* the starknet branch of the all-chains mode (lines 343-363)
starknetHoldingsInAll(tokens, eth, prices) ==
    LET acc[i \in 0..Len(tokens)] ==
            IF i = 0 THEN <<>>
            ELSE IF starknetValueUsd(tokens[i], eth, prices) > DustThreshold
                 THEN Append(acc[i - 1],
                             Holding(tokens[i].symbol, tokens[i].formattedBalance,
                                     starknetValueUsd(tokens[i], eth, prices), "starknet"))
                 ELSE acc[i - 1]
    IN acc[Len(tokens)]

\* the starknet branch proper (lines 382-399): no chain field, no dust test
starknetHoldings(tokens, eth, prices) ==
    [i \in 1..Len(tokens) |->
        Holding(tokens[i].symbol, tokens[i].formattedBalance,
                starknetValueUsd(tokens[i], eth, prices), Undefined)]

\* JavaScript truthiness of holding.chain
Truthy(c) == c # Undefined /\ c # ""

\* index of the row of `symbol` among rows, 0 when there is none (Map.get)
RowOf(rows, symbol) ==
    IF \E j \in 1..Len(rows) : rows[j].symbol = symbol
    THEN CHOOSE j \in 1..Len(rows) : rows[j].symbol = symbol
    ELSE 0

\* addHolding that overwrites the value of an existing row
addHoldingOverwrite(rows, holding) ==
    LET j == RowOf(rows, holding.symbol)
    IN IF j # 0
       THEN [rows EXCEPT
                ![j].balance = @ + parseFloat(holding.balance),
                ![j].valueUsd = holding.valueUsd,
                ![j].chains = IF Truthy(holding.chain) /\ ~includes(@, holding.chain)
                              THEN Append(@, holding.chain)
                              ELSE @]
       ELSE Append(rows,
                   [symbol |-> holding.symbol,
                    balance |-> parseFloat(holding.balance),
                    valueUsd |-> holding.valueUsd,
                    chains |-> IF Truthy(holding.chain) THEN <<holding.chain>> ELSE <<>>])

addHolding(rows, holding) ==
    LET j == RowOf(rows, holding.symbol)
    IN IF j # 0
       THEN [rows EXCEPT
                ![j].balance = @ + parseFloat(holding.balance),
                ![j].valueUsd = @ + holding.valueUsd,
                ![j].chains = IF Truthy(holding.chain) /\ ~includes(@, holding.chain)
                              THEN Append(@, holding.chain)
                              ELSE @]
       ELSE Append(rows,
                   [symbol |-> holding.symbol,
                    balance |-> parseFloat(holding.balance),
                    valueUsd |-> holding.valueUsd,
                    chains |-> IF Truthy(holding.chain) THEN <<holding.chain>> ELSE <<>>])

\* lines 408-425: the values of the Map, in insertion order
aggregate(hs) ==
    LET acc[i \in 0..Len(hs)] ==
            IF i = 0 THEN <<>> ELSE addHolding(acc[i - 1], hs[i])
    IN acc[Len(hs)]

RECURSIVE join(_, _)
\* Array.prototype.join
join(list, sep) ==
    IF list = <<>> THEN ""
    ELSE IF Len(list) = 1 THEN list[1]
    ELSE list[1] \o sep \o join(Tail(list), sep)

finalSymbol(row) ==
    IF Len(row.chains) > 1
    THEN row.symbol \o " (" \o join(row.chains, "+") \o ")"
    ELSE row.symbol

\* lines 428-432
toFinalHoldings(rows) ==
    [i \in 1..Len(rows) |->
        [symbol |-> finalSymbol(rows[i]),
         balance |-> numberToString(rows[i].balance),
         valueUsd |-> rows[i].valueUsd]]

-----------------------------------------------------------------------------
(* advisor: generateAdvice and generateFallbackAdvice *)
(* The texts are the source's without their leading emoji.                 *)

\* Number.prototype.toFixed(1) of a percentage: the nearest tenth, the larger
\* one on a tie (a decimal tie that has no exact binary form lies on one side
\* of it in the double; no property below reads that digit)
toFixed1(p) ==
    LET q == p.num \div p.den
        r == p.num % p.den
        t == (10 * r) \div p.den
        r2 == (10 * r) % p.den
        n == 10 * q + t + (IF 2 * r2 >= p.den THEN 1 ELSE 0)
    IN ToString(n \div 10) \o "." \o ToString(n % 10)

\* the risk assessment with one text for high and very-high
riskAssessmentMerged(riskLevel) ==
    IF riskLevel = "very-high" \/ riskLevel = "high"
    THEN "**High Risk Portfolio**: Your exposure to volatile assets is significant with minimal stablecoin buffer."
    ELSE IF riskLevel = "medium"
    THEN "**Balanced Risk**: Your portfolio has reasonable diversification but could be optimized."
    ELSE "**Conservative Portfolio**: Strong stablecoin position provides good downside protection."

\* lines 612-629
riskAssessment(riskLevel) ==
    IF riskLevel = "very-high"
    THEN "**High Risk Portfolio**: Your exposure to volatile assets is significant with minimal stablecoin buffer."
    ELSE IF riskLevel = "high"
    THEN "**Elevated Risk**: Consider increasing stablecoin allocation to reduce volatility impact."
    ELSE IF riskLevel = "medium"
    THEN "**Balanced Risk**: Your portfolio has reasonable diversification but could be optimized."
    ELSE "**Conservative Portfolio**: Strong stablecoin position provides good downside protection."

\* 10000 USD
HardwareWalletThreshold == 1000000000

\* lines 607-657: the lines pushed to `advice`, joined by "\n"
generateFallbackAdvice(a) ==
    LET topHolding == a.holdings[1]
        concentration ==
            IF a.concentrationRisk
            THEN <<"\n**Concentration Alert**: " \o topHolding.symbol \o " represents "
                   \o toFixed1(topHolding.percentage)
                   \o "% of your portfolio. Consider diversifying to reduce single-asset risk.">>
            ELSE <<>>
        stable ==
            IF PctLt(a.stablecoinPercentage, 20)
            THEN <<"- Increase stablecoins to 20-30% for market volatility protection">>
            ELSE <<>>
        volatile ==
            IF PctGt(a.volatilePercentage, 80)
            THEN <<"- Reduce volatile asset exposure to ~70% maximum">>
            ELSE <<>>
        security ==
            IF a.totalValueUsd > HardwareWalletThreshold
            THEN <<"- Review security: hardware wallet recommended for this portfolio size">>
            ELSE <<>>
    IN join(<<riskAssessment(a.riskLevel)>> \o concentration
            \o <<"\n**Suggested Allocation:**">> \o stable \o volatile
            \o <<"\n**Action Items:**",
                 "- Set stop-losses on volatile positions",
                 "- Consider DCA (Dollar Cost Average) for new entries">>
            \o security,
            "\n")

\* generateText answered with a text
Generated(text) == [ok |-> TRUE, text |-> text]
\* generateText raised (an error answer of the provider, a network failure)
GenerationFailed == [ok |-> FALSE]

\* lines 566-605; the prompt is built from the analysis and the chain label
\* with toFixed, slice, map and join, none of which raises; outcome is what
\* generateText did with it
generateAdvice(a, chainLabel, outcome) ==
    IF outcome.ok THEN outcome.text ELSE generateFallbackAdvice(a)

\* line 438
chainLabelOf(c) ==
    IF c = "all" THEN "multi-chain (Ethereum, Base, Arbitrum, Hyperliquid)" ELSE c

-----------------------------------------------------------------------------
(* Inputs: what the collaborators may answer *)

\* most tokens in one wallet of a single-chain EVM request
MaxTokens == 2
\* most tokens with a balance in one Starknet wallet
MaxStarkTokens == 2
\* longest list handed to analyzePortfolio directly
MaxHoldings == 3

\* the price source raised: no connection, a body that is not JSON
PriceFailure == [ok |-> FALSE]
\* the price source answered with these coins (prices in cents)
PriceAnswer(coins) == [ok |-> TRUE, coins |-> coins]
\* the price source has not been called
NotCalled == [called |-> FALSE]

\* an ETH price that stands for 0 after a failure
getEthPriceOrOne(response) ==
    IF response.ok /\ "ETH" \in DOMAIN response.coins THEN response.coins["ETH"] ELSE 100

\* prices.ts lines 95-105: the price of coingecko:ethereum, 0 when the answer
\* has none or the call raised
getEthPrice(response) ==
    IF response.ok /\ "ETH" \in DOMAIN response.coins THEN response.coins["ETH"] ELSE 0

\* what the price source may do with the call of getEthPrice (ETH at 5 USD)
EthResponses == {PriceFailure, PriceAnswer("ETH" :> 500)}

\* formattedBalance of the native coin: "0", "0.002", "0.5"
NativeAmounts == {Dec(<<0>>, <<>>), Dec(<<0>>, <<0, 0, 2>>), Dec(<<0>>, <<5>>)}

\* token balances an EVM balance source may report (usdPrice in cents, 0
\* when the source has no exchange rate for the token)
EVMTokenKinds ==
    {Token("USDC", Dec(<<1>>, <<>>), 100),
     Token("USDC", Dec(<<0>>, <<0, 0, 5>>), 100),
     Token("USDC", Dec(<<0>>, <<0, 1>>), 100),
     Token("DAI", Dec(<<2>>, <<5>>), 0),
     Token("WETH", Dec(<<0>>, <<5>>), 500),
     Token("ARB", Dec(<<1, 0>>, <<>>), 35),
     Token("HYPE", Dec(<<0>>, <<0, 5>>), 0),
     Token("hbUSDT", Dec(<<1>>, <<>>), 100),
     Token("FRAX", Dec(<<2>>, <<5>>), 100),
     Token("PEPE", Dec(<<1, 0, 0>>, <<>>), 3)}

\* token.usdValue, 0 when it is not set (no usdPrice)
usdValueOf(token) == parseFloat(token.formattedBalance) * token.usdPrice

\* the order tokenBalances.sort leaves: the tokens with a usdValue first, by
\* falling value, then the others
sortedByUsdValue(ts) ==
    \A i, j \in 1..Len(ts) :
        i < j => /\ usdValueOf(ts[i]) = 0 => usdValueOf(ts[j]) = 0
                 /\ usdValueOf(ts[j]) > 0 => usdValueOf(ts[i]) >= usdValueOf(ts[j])

\* the symbols of FALLBACK_TOKENS.hyperliquid
FALLBACK_TOKENS == <<"hbUSDT", "USDC", "WETH">>

\* a token list the balance source of chain c can return
CanReport(c, ts) ==
    /\ sortedByUsdValue(ts)
    /\ c = "hyperliquid" =>
          /\ \A i \in 1..Len(ts) : includes(FALLBACK_TOKENS, ts[i].symbol)
          /\ \A i, j \in 1..Len(ts) : ts[i].symbol = ts[j].symbol => i = j

\* the chains the input schema accepts beside "starknet" and "all"
SingleEVMChains == {"ethereum", "base", "arbitrum", "hyperliquid"}

Ok(balances) == [ok |-> TRUE, balances |-> balances]
\* getEVMWalletBalances raised an Error with this message
Failure == [ok |-> FALSE, message |-> "fetch failed"]

\* outcomes of getEVMWalletBalances for a single-chain request
SingleOutcomes(c) ==
    {Failure} \cup
    {Ok(WalletBalances(c, n, ts)) :
        n \in NativeAmounts,
        ts \in {l \in SeqsUpTo(EVMTokenKinds, MaxTokens) : CanReport(c, l)}}

\* sample wallets per chain for the all-chains mode
SampleWallets(c) ==
    CASE c = "ethereum" ->
            {WalletBalances(c, Dec(<<0>>, <<5>>), <<Token("USDC", Dec(<<1>>, <<>>), 100)>>),
             WalletBalances(c, Dec(<<0>>, <<>>),
                            <<Token("USDC", Dec(<<0>>, <<0, 0, 5>>), 100),
                              Token("DAI", Dec(<<2>>, <<5>>), 0)>>)}
      [] c = "arbitrum" ->
            {WalletBalances(c, Dec(<<0>>, <<>>),
                            <<Token("ARB", Dec(<<1, 0>>, <<>>), 35),
                              Token("USDC", Dec(<<1>>, <<>>), 100)>>),
             WalletBalances(c, Dec(<<0>>, <<0, 0, 2>>), <<>>)}
      [] c = "base" ->
            {WalletBalances(c, Dec(<<0>>, <<>>),
                            <<Token("USDC", Dec(<<2>>, <<5>>), 100),
                              Token("USDC", Dec(<<1>>, <<>>), 100)>>),
             WalletBalances(c, Dec(<<0>>, <<5>>), <<Token("WETH", Dec(<<0>>, <<5>>), 500)>>)}
      [] c = "optimism" -> {WalletBalances(c, Dec(<<0>>, <<>>), <<>>)}
      [] c = "polygon" -> {WalletBalances(c, Dec(<<0>>, <<5>>), <<>>)}
      [] c = "gnosis" ->
            {WalletBalances(c, Dec(<<0>>, <<>>), <<Token("DAI", Dec(<<2>>, <<5>>), 0)>>)}
      [] c = "hyperliquid" ->
            {WalletBalances(c, Dec(<<0>>, <<>>),
                            <<Token("hbUSDT", Dec(<<1>>, <<>>), 100)>>)}

\* a collector that stops at the first null
getAllEVMWalletBalancesUntilNull(values) ==
    LET acc[i \in 0..Len(values)] ==
            IF i = 0 THEN <<>>
            ELSE IF \A j \in 1..i : values[j] # Null THEN Append(acc[i - 1], values[i])
            ELSE acc[i - 1]
    IN acc[Len(values)]

\* part_001 lines 541-548: the results that are not null, in the order of
\* allResults
getAllEVMWalletBalances(values) ==
    LET acc[i \in 0..Len(values)] ==
            IF i = 0 THEN <<>>
            ELSE IF values[i] # Null THEN Append(acc[i - 1], values[i])
            ELSE acc[i - 1]
    IN acc[Len(values)]

\* an amount (unit 0.001) in the base units of a token with `decimals` places
BaseUnits(milli, decimals) == NatToDigits(milli) \o Zeros(decimals - 3)

\* amounts a Starknet token may hold: 0.005, 0.01, 1.5
StarkAmounts == {5, 10, 1500}

StarkIndex == 1..Len(STARKNET_TOKENS)

\* amounts: a function from the indices of the tokens held to their amount
StarkAnswers(amounts) ==
    [i \in StarkIndex |->
        IF i \in DOMAIN amounts
        THEN BaseUnits(amounts[i], STARKNET_TOKENS[i].decimals)
        ELSE <<0>>]

\* what balanceOf answers, token by token; the last one: every call raises
StarkWorlds ==
    {StarkAnswers(a) :
        a \in UNION {[held -> StarkAmounts] :
                        held \in {h \in SUBSET StarkIndex : Cardinality(h) <= MaxStarkTokens}}}
    \cup {[i \in StarkIndex |-> <<>>]}

\* sample Starknet wallets for the all-chains mode
SampleStarkWorlds ==
    {StarkAnswers(<<>>),
     StarkAnswers(3 :> 1500),
     StarkAnswers(1 :> 1500 @@ 2 :> 1500),
     StarkAnswers(3 :> 5 @@ 6 :> 1500),
     [i \in StarkIndex |-> <<>>]}

\* the prices the price source knows, in cents
PriceCatalogue == ("STRK" :> 50) @@ ("WBTC" :> 3000) @@ ("LORDS" :> 5)

\* prices.ts lines 57-92: the Map, keyed by the token (its address): an entry
\* per requested token that the answer has, none when the call raised
getTokenPrices(tokens, response) ==
    IF response.ok
    THEN LET asked == {tokens[i].symbol : i \in 1..Len(tokens)} \cap DOMAIN response.coins
         IN [s \in asked |-> response.coins[s]]
    ELSE [s \in {} |-> 0]

\* what the price source may do with the call of getTokenPrices: raise, know
\* every token, know STRK alone
TokenPriceResponses ==
    {PriceFailure, PriceAnswer(PriceCatalogue), PriceAnswer("STRK" :> PriceCatalogue["STRK"])}

\* ctx.input.address, by what the handler reads of it
Address(prefix0x, length) == [prefix0x |-> prefix0x, length |-> length]

\* the test of line 332 with the length alone
looksLikeStarknetByLength(a) == a.length > 42

\* line 332: address.startsWith("0x") && address.length > 42
looksLikeStarknet(a) == a.prefix0x /\ a.length > 42

\* the addresses of a request: an EVM address, a Starknet address, and for
\* the all-chains mode 64 hexadecimal digits without the prefix
Addresses(c) ==
    IF c = "all" THEN {Address(TRUE, 42), Address(TRUE, 66), Address(FALSE, 64)}
    ELSE IF c = "starknet" THEN {Address(TRUE, 66)}
    ELSE {Address(TRUE, 42)}

\* getStarknetWalletBalances raised (outside its per-token try: the provider
\* of starknet.ts line 186)
StarknetFailure == [ok |-> FALSE, message |-> "Starknet provider failed"]

-----------------------------------------------------------------------------
(* State machine *)

NoCall == [fn |-> "none"]
\* generateText has not been called
NotAsked == [asked |-> FALSE]

\* a map that would call the wrapper of the first chain only
issueFirst(chains) == [i \in 1..Len(chains) |-> IF i = 1 THEN Pending ELSE Unissued]

\* chainsToQuery.map(async ...) calls every wrapper, which runs up to its
\* first await: every fetch is under way when map returns
issueAll(chains) == [i \in 1..Len(chains) |-> Pending]

\* the wrapper of part_001 lines 530-537: the balances, null after a raise
wrapperValue(outcome) == IF outcome.ok THEN outcome.balances ELSE Null

\* a collector that keeps the values in the order they arrive
resolveElementInArrivalOrder(values, index, value) ==
    LET first == CHOOSE k \in 1..Len(values) :
                    values[k] = Pending /\ \A j \in 1..(k - 1) : values[j] # Pending
    IN [values EXCEPT ![first] = value]

\* Promise.all keeps the value of the promise of index i at index i
resolveElement(values, index, value) == [values EXCEPT ![index] = value]

\* Promise.all is fulfilled when every element is
allSettled(values) == \A i \in 1..Len(values) : values[i] # Pending

\* lines 455-460 (every cause here is an Error)
wrapError(message) == "Failed to analyze wallet: " \o message

\* what generateText may do
LlmOutcomes == {Generated("Hold 30% in stablecoins."), Generated(""), GenerationFailed}

Init ==
    /\ pc = "idle"
    /\ chain = "none"
    /\ address = Address(FALSE, 0)
    /\ addressIsStarknet = FALSE
    /\ priceSource = [eth |-> NotCalled, tokens |-> NotCalled]
    /\ ethPrice = 0
    /\ promises = <<>>
    /\ allResults = <<>>
    /\ settledOutOfOrder = FALSE
    /\ evmBalances = <<>>
    /\ balanceOf = <<>>
    /\ starknetError = ""
    /\ starknetBalances = <<>>
    /\ tokenPrices = <<>>
    /\ holdings = <<>>
    /\ aggregatedHoldings = <<>>
    /\ finalHoldings = <<>>
    /\ analysis = analyzePortfolio(<<>>)
    /\ llm = NotAsked
    /\ advice = ""
    /\ error = ""
    /\ call = NoCall

\* a request reaches the handler (line 311)
Invoke ==
    /\ pc = "idle" /\ call = NoCall
    /\ \E c \in SingleEVMChains \cup {"starknet", "all"} :
         /\ chain' = c
         /\ \E a \in Addresses(c) :
              /\ address' = a
              /\ addressIsStarknet' = looksLikeStarknet(a)
    /\ pc' = "start"
    /\ UNCHANGED <<priceSource, ethPrice, promises, allResults, settledOutOfOrder,
                   evmBalances, balanceOf, starknetError, starknetBalances,
                   tokenPrices, holdings, aggregatedHoldings, finalHoldings, analysis,
                   llm, advice, error, call>>

\* line 318
GetEthPrice ==
    /\ pc = "start"
    /\ \E response \in EthResponses :
         /\ priceSource' = [priceSource EXCEPT !.eth = response]
         /\ ethPrice' = getEthPrice(response)
    /\ pc' = "priced"
    /\ UNCHANGED <<chain, address, addressIsStarknet, promises, allResults,
                   settledOutOfOrder, evmBalances, balanceOf, starknetError,
                   starknetBalances, tokenPrices, holdings, aggregatedHoldings,
                   finalHoldings, analysis, llm, advice, error, call>>

\* line 325 calls getAllEVMWalletBalances, which issues the fetch of every
\* chain (part_001 lines 530-537) and awaits Promise.all (line 539)
IssueAllEVM ==
    /\ pc = "priced" /\ chain = "all"
    /\ promises' = issueAll(ALL_EVM_CHAINS)
    /\ allResults' = [i \in 1..Len(ALL_EVM_CHAINS) |-> Pending]
    /\ pc' = "fetching"
    /\ UNCHANGED <<chain, address, addressIsStarknet, priceSource, ethPrice,
                   settledOutOfOrder, evmBalances, balanceOf, starknetError,
                   starknetBalances, tokenPrices, holdings, aggregatedHoldings,
                   finalHoldings, analysis, llm, advice, error, call>>

\* the fetch of one chain answers or raises, in any order; the flag
\* settledOutOfOrder records that a chain settled before an earlier one of
\* the list
SettleEVMFetch ==
    /\ pc = "fetching"
    /\ \E i \in 1..Len(promises) :
         /\ promises[i] = Pending
         /\ \E outcome \in {Failure} \cup {Ok(w) : w \in SampleWallets(ALL_EVM_CHAINS[i])} :
              /\ promises' = [promises EXCEPT ![i] = outcome]
              /\ allResults' = resolveElement(allResults, i, wrapperValue(outcome))
         /\ settledOutOfOrder' =
              (settledOutOfOrder \/ \E j \in 1..(i - 1) : promises[j] = Pending)
    /\ UNCHANGED <<pc, chain, address, addressIsStarknet, priceSource, ethPrice,
                   evmBalances, balanceOf, starknetError, starknetBalances,
                   tokenPrices, holdings, aggregatedHoldings, finalHoldings, analysis,
                   llm, advice, error, call>>

\* Promise.all is fulfilled (part_001 lines 539-548); lines 325-329: each
\* result is normalised
FetchAllEVM ==
    /\ pc = "fetching"
    /\ allSettled(allResults)
    /\ LET results == getAllEVMWalletBalances(allResults)
           acc[i \in 0..Len(results)] ==
              IF i = 0 THEN <<>>
              ELSE acc[i - 1] \o processEVMBalances(results[i], ethPrice, results[i].chain)
       IN /\ evmBalances' = results
          /\ holdings' = acc[Len(results)]
    /\ pc' = "evm_done"
    /\ UNCHANGED <<chain, address, addressIsStarknet, priceSource, ethPrice, promises,
                   allResults, settledOutOfOrder, balanceOf, starknetError,
                   starknetBalances, tokenPrices, aggregatedHoldings, finalHoldings,
                   analysis, llm, advice, error, call>>

\* lines 332-367, the address has the Starknet shape; a raise of the
\* Starknet step is caught at line 364
FetchStarknetInAll ==
    /\ pc = "evm_done" /\ addressIsStarknet
    /\ \/ \E world \in SampleStarkWorlds, response \in TokenPriceResponses :
            LET tokens == getStarknetWalletBalances(world)
                prices == getTokenPrices(tokens, response)
            IN /\ balanceOf' = world
               /\ starknetBalances' = tokens
               /\ priceSource' = [priceSource EXCEPT !.tokens = response]
               /\ tokenPrices' = prices
               /\ holdings' = holdings \o starknetHoldingsInAll(tokens, ethPrice, prices)
               /\ starknetError' = starknetError
       \/ /\ starknetError' = StarknetFailure.message
          /\ UNCHANGED <<balanceOf, starknetBalances, priceSource, tokenPrices, holdings>>
    /\ pc' = "fetched"
    /\ UNCHANGED <<chain, address, addressIsStarknet, ethPrice, promises, allResults,
                   settledOutOfOrder, evmBalances, aggregatedHoldings, finalHoldings,
                   analysis, llm, advice, error, call>>

\* line 332, the address has not the Starknet shape
SkipStarknetInAll ==
    /\ pc = "evm_done" /\ ~addressIsStarknet
    /\ pc' = "fetched"
    /\ UNCHANGED <<chain, address, addressIsStarknet, priceSource, ethPrice, promises,
                   allResults, settledOutOfOrder, evmBalances, balanceOf,
                   starknetError, starknetBalances, tokenPrices, holdings,
                   aggregatedHoldings, finalHoldings, analysis, llm, advice, error,
                   call>>

\* lines 369-399; a raise of the Starknet step is caught at line 455 and
\* rethrown
FetchStarknet ==
    /\ pc = "priced" /\ chain = "starknet"
    /\ \/ \E world \in StarkWorlds, response \in TokenPriceResponses :
            LET tokens == getStarknetWalletBalances(world)
                prices == getTokenPrices(tokens, response)
            IN /\ balanceOf' = world
               /\ starknetBalances' = tokens
               /\ priceSource' = [priceSource EXCEPT !.tokens = response]
               /\ tokenPrices' = prices
               /\ holdings' = starknetHoldings(tokens, ethPrice, prices)
               /\ pc' = "fetched"
               /\ UNCHANGED <<starknetError, error>>
       \/ /\ starknetError' = StarknetFailure.message
          /\ error' = wrapError(StarknetFailure.message)
          /\ pc' = "failed"
          /\ UNCHANGED <<balanceOf, starknetBalances, priceSource, tokenPrices, holdings>>
    /\ UNCHANGED <<chain, address, addressIsStarknet, ethPrice, promises, allResults,
                   settledOutOfOrder, evmBalances, aggregatedHoldings, finalHoldings,
                   analysis, llm, advice, call>>

\* lines 400-405; a failed fetch is caught at line 455 and rethrown
FetchSingleEVM ==
    /\ pc = "priced" /\ chain \in SingleEVMChains
    /\ \E outcome \in SingleOutcomes(chain) :
         /\ promises' = <<outcome>>
         /\ IF outcome.ok
            THEN /\ evmBalances' = <<outcome.balances>>
                 /\ holdings' = processEVMBalances(outcome.balances, ethPrice, chain)
                 /\ pc' = "fetched"
                 /\ error' = error
            ELSE /\ pc' = "failed"
                 /\ error' = wrapError(outcome.message)
                 /\ UNCHANGED <<evmBalances, holdings>>
    /\ UNCHANGED <<chain, address, addressIsStarknet, priceSource, ethPrice,
                   allResults, settledOutOfOrder, balanceOf, starknetError,
                   starknetBalances, tokenPrices, aggregatedHoldings, finalHoldings,
                   analysis, llm, advice, call>>

\* lines 407-432
Aggregate ==
    /\ pc = "fetched"
    /\ aggregatedHoldings' = aggregate(holdings)
    /\ finalHoldings' = toFinalHoldings(aggregate(holdings))
    /\ pc' = "aggregated"
    /\ UNCHANGED <<chain, address, addressIsStarknet, priceSource, ethPrice, promises,
                   allResults, settledOutOfOrder, evmBalances, balanceOf,
                   starknetError, starknetBalances, tokenPrices, holdings, analysis,
                   llm, advice, error, call>>

\* line 435
Analyze ==
    /\ pc = "aggregated"
    /\ analysis' = analyzePortfolio(finalHoldings)
    /\ pc' = "analyzed"
    /\ UNCHANGED <<chain, address, addressIsStarknet, priceSource, ethPrice, promises,
                   allResults, settledOutOfOrder, evmBalances, balanceOf,
                   starknetError, starknetBalances, tokenPrices, holdings,
                   aggregatedHoldings, finalHoldings, llm, advice, error, call>>

\* lines 438-453: the advice is generated and the report is returned
GenerateAdvice ==
    /\ pc = "analyzed"
    /\ \E outcome \in LlmOutcomes :
         /\ llm' = outcome
         /\ advice' = generateAdvice(analysis, chainLabelOf(chain), outcome)
    /\ pc' = "done"
    /\ UNCHANGED <<chain, address, addressIsStarknet, priceSource, ethPrice, promises,
                   allResults, settledOutOfOrder, evmBalances, balanceOf,
                   starknetError, starknetBalances, tokenPrices, holdings,
                   aggregatedHoldings, finalHoldings, analysis, error, call>>

-----------------------------------------------------------------------------
(* Direct calls of the analyzer's functions *)

CallSymbols == {"USDC", "ETH", "PEPE"}
\* 0, 0.005, 0.01, 0.5, 3.5 and 6 USD
CallValues == {0, 500, 1000, 50000, 350000, 600000}

CallHoldings ==
    {[symbol |-> s, balance |-> Dec(<<1>>, <<>>), valueUsd |-> v] :
        s \in CallSymbols, v \in CallValues}

\* the strings categorizeToken is tried on: the three lists, other tickers,
\* other spellings
SymbolUniverse ==
    Range(stablecoins) \cup Range(natives) \cup Range(defi) \cup
    {"PEPE", "HYPE", "POL", "xDAI", "tBTC", "wstETH", "usdc", "Usdc", "eth", "weth",
     "aave", "USDBC", "other", "", "USDC (ethereum+base)"}

Percents == 0..100

CallAnalyzePortfolio ==
    /\ pc = "idle" /\ call = NoCall
    /\ \E hs \in SeqsUpTo(CallHoldings, MaxHoldings) :
         call' = [fn |-> "analyzePortfolio", holdings |-> hs, result |-> analyzePortfolio(hs)]
    /\ UNCHANGED <<pc, chain, address, addressIsStarknet, priceSource, ethPrice,
                   promises, allResults, settledOutOfOrder, evmBalances, balanceOf,
                   starknetError, starknetBalances, tokenPrices, holdings,
                   aggregatedHoldings, finalHoldings, analysis, llm, advice, error>>

CallCalculateRiskLevel ==
    /\ pc = "idle" /\ call = NoCall
    /\ \E p \in Percents, c \in BOOLEAN :
         call' = [fn |-> "calculateRiskLevel", stablecoinPct |-> p, concentrationRisk |-> c,
                  result |-> calculateRiskLevel(Pct(p, 1), c)]
    /\ UNCHANGED <<pc, chain, address, addressIsStarknet, priceSource, ethPrice,
                   promises, allResults, settledOutOfOrder, evmBalances, balanceOf,
                   starknetError, starknetBalances, tokenPrices, holdings,
                   aggregatedHoldings, finalHoldings, analysis, llm, advice, error>>

CallCategorizeToken ==
    /\ pc = "idle" /\ call = NoCall
    /\ \E s \in SymbolUniverse :
         call' = [fn |-> "categorizeToken", symbol |-> s, result |-> categorizeToken(s)]
    /\ UNCHANGED <<pc, chain, address, addressIsStarknet, priceSource, ethPrice,
                   promises, allResults, settledOutOfOrder, evmBalances, balanceOf,
                   starknetError, starknetBalances, tokenPrices, holdings,
                   aggregatedHoldings, finalHoldings, analysis, llm, advice, error>>

\* generateAdvice on the result of a call of analyzePortfolio
CallGenerateAdvice ==
    /\ pc = "idle" /\ call.fn = "analyzePortfolio"
    /\ \E outcome \in LlmOutcomes, c \in {"ethereum", "all"} :
         call' = [fn |-> "generateAdvice", analysis |-> call.result, outcome |-> outcome,
                  result |-> generateAdvice(call.result, chainLabelOf(c), outcome)]
    /\ UNCHANGED <<pc, chain, address, addressIsStarknet, priceSource, ethPrice,
                   promises, allResults, settledOutOfOrder, evmBalances, balanceOf,
                   starknetError, starknetBalances, tokenPrices, holdings,
                   aggregatedHoldings, finalHoldings, analysis, llm, advice, error>>

\* the decimals counts of STARKNET_TOKENS
TokenDecimals == {STARKNET_TOKENS[i].decimals : i \in 1..Len(STARKNET_TOKENS)}

\* base-unit balances for the direct call: 1 base unit, 1234567 base units,
\* 10^8 and 1.5 * 10^18 base units, 1234567890123456789 base units
FormatBalanceInputs ==
    {<<1>>, <<1, 2, 3, 4, 5, 6, 7>>, <<1>> \o Zeros(8), BaseUnits(1500, 18),
     <<1, 2, 3, 4, 5, 6, 7, 8, 9, 0, 1, 2, 3, 4, 5, 6, 7, 8, 9>>}

\* a direct call of formatBalance
CallFormatBalance ==
    /\ pc = "idle" /\ call = NoCall
    /\ \E balance \in FormatBalanceInputs, decimals \in TokenDecimals :
         call' = [fn |-> "formatBalance", balance |-> balance, decimals |-> decimals,
                  result |-> formatBalance(balance, decimals)]
    /\ UNCHANGED <<pc, chain, address, addressIsStarknet, priceSource, ethPrice,
                   promises, allResults, settledOutOfOrder, evmBalances, balanceOf,
                   starknetError, starknetBalances, tokenPrices, holdings,
                   aggregatedHoldings, finalHoldings, analysis, llm, advice, error>>

Next ==
    \/ Invoke
    \/ GetEthPrice
    \/ IssueAllEVM
    \/ SettleEVMFetch
    \/ FetchAllEVM
    \/ FetchStarknetInAll
    \/ SkipStarknetInAll
    \/ FetchStarknet
    \/ FetchSingleEVM
    \/ Aggregate
    \/ Analyze
    \/ GenerateAdvice
    \/ CallAnalyzePortfolio
    \/ CallCalculateRiskLevel
    \/ CallCategorizeToken
    \/ CallGenerateAdvice
    \/ CallFormatBalance

Spec == Init /\ [][Next]_vars

\* The steps the handler takes by itself, once what it awaits has settled: the
\* event loop runs them.  The steps that hold the answer of a collaborator
\* (price source, balance sources, text generator) are not among them: no
\* call of the source has a timeout or an abort signal, so nothing obliges
\* such a step to happen.
OwnSteps ==
    \/ IssueAllEVM
    \/ FetchAllEVM
    \/ SkipStarknetInAll
    \/ Aggregate
    \/ Analyze

\* the handler under the scheduling of the event loop
LiveSpec == Spec /\ WF_vars(OwnSteps)

-----------------------------------------------------------------------------
(* Properties *)

\* a report exists: the handler's, or the result of a direct call
HasReport == pc \in {"analyzed", "done"} \/ call.fn = "analyzePortfolio"
Report == IF call.fn = "analyzePortfolio" THEN call.result ELSE analysis
\* the list that analyzePortfolio was given for that report
ReportInput == IF call.fn = "analyzePortfolio" THEN call.holdings ELSE finalHoldings

\* |p - k| <= 1e-6 for a fraction p
Within1e6(p, k) ==
    LET d == IF p.num >= k * p.den THEN p.num - k * p.den ELSE k * p.den - p.num
    IN d = 0 \/ d <= p.den \div 1000000

PctSum(p, q) == Pct(p.num + q.num, p.den)

\* the lookup table as the specification states it
SpecStablecoins == {"USDC", "USDT", "DAI", "FRAX", "LUSD", "USDbC", "BUSD"}
SpecNatives == {"ETH", "STRK", "BTC", "WBTC", "WETH"}
SpecDefi == {"AAVE", "UNI", "LINK", "CRV", "LDO", "ARB", "OP", "MKR", "COMP"}
SpecCategory(symbol) ==
    CASE symbol \in SpecStablecoins -> "stablecoin"
      [] symbol \in SpecNatives -> "native"
      [] symbol \in SpecDefi -> "defi"
      [] OTHER -> "volatile"

\* C1: whenever totalValueUsd > 0, the percentages of the holdings of a
\* report sum to 100 within 1e-6, dust entries in the input included.
C1_PercentagesSumTo100 ==
    (HasReport /\ Report.totalValueUsd > 0)
        => Within1e6(SumPct(Report.holdings, Report.totalValueUsd), 100)

\* C2: whenever totalValueUsd > 0, stablecoinPercentage + volatilePercentage
\* is 100 within 1e-6.
C2_StableVolatileComplement ==
    (HasReport /\ Report.totalValueUsd > 0)
        => Within1e6(PctSum(Report.stablecoinPercentage, Report.volatilePercentage), 100)

\* the rows of a report that come from the aggregated row `row`
ReportRowsOf(row) ==
    {i \in 1..Len(analysis.holdings) : analysis.holdings[i].symbol = finalSymbol(row)}

\* C3: in the all-chains report a holding has the category of its ticker in
\* the lookup table, however many chains hold it, and stablecoinPercentage
\* counts every holding whose ticker is a stablecoin.
C3_CategoryByTicker ==
    (pc = "analyzed" /\ chain = "all") =>
        /\ \A j \in 1..Len(aggregatedHoldings) :
             \A i \in ReportRowsOf(aggregatedHoldings[j]) :
                analysis.holdings[i].category = SpecCategory(aggregatedHoldings[j].symbol)
        /\ LET stableValue(row) ==
                   IF row.symbol \in SpecStablecoins /\ row.valueUsd > DustThreshold
                   THEN row.valueUsd ELSE 0
           IN analysis.stablecoinPercentage.num
                = (IF analysis.totalValueUsd > 0
                   THEN 100 * SumOver(aggregatedHoldings, stableValue) ELSE 0)

RiskTiers == {"low", "medium", "high", "very-high"}

\* the ordered threshold policy, case by case
TierAsSpecified(p, conc, level) ==
    /\ level \in RiskTiers
    /\ PctGe(p, 50) => level = "low"
    /\ (PctLt(p, 50) /\ PctGe(p, 30) /\ ~conc) => level = "medium"
    /\ (PctLt(p, 50) /\ PctGe(p, 30) /\ conc) => level = "high"
    /\ (PctLt(p, 30) /\ PctGe(p, 10)) => level = "high"
    /\ PctLt(p, 10) => level = "very-high"

\* C4: calculateRiskLevel gives low from 50% stablecoins on, medium from 30%
\* on without concentration, high from 10% on (and for 30..50 with
\* concentration), very-high below; always one of the four tiers.
C4_RiskLevelThresholds ==
    /\ HasReport =>
         TierAsSpecified(Report.stablecoinPercentage, Report.concentrationRisk,
                         Report.riskLevel)
    /\ call.fn = "calculateRiskLevel" =>
         TierAsSpecified(Pct(call.stablecoinPct, 1), call.concentrationRisk, call.result)

\* a report with 30..50% stablecoins and a concentrated holding is high
C4_Witness ==
    /\ HasReport
    /\ PctGe(Report.stablecoinPercentage, 30) /\ PctLt(Report.stablecoinPercentage, 50)
    /\ Report.concentrationRisk
    /\ Report.riskLevel = "high"

\* C5: concentrationRisk is true exactly when some holding of the report has
\* a percentage strictly above 50.
C5_ConcentrationFlag ==
    HasReport =>
        (Report.concentrationRisk
            <=> \E i \in 1..Len(Report.holdings) :
                    Report.holdings[i].percentage.num > 50 * Report.holdings[i].percentage.den)

\* two holdings at exactly 50% each, and no concentration risk
C5_Witness ==
    /\ HasReport
    /\ Len(Report.holdings) = 2
    /\ \A i \in 1..2 : 2 * Report.holdings[i].valueUsd = Report.totalValueUsd
    /\ \A i \in 1..2 : Report.holdings[i].percentage.num = 50 * Report.holdings[i].percentage.den
    /\ ~Report.concentrationRisk

\* the aggregated row of a symbol
RowFor(symbol) == aggregatedHoldings[RowOf(aggregatedHoldings, symbol)]

\* C6: no holding worth 0.01 USD or less is in the holdings of a report, in
\* any request mode: every row is worth more, and a normalised holding at or
\* below the threshold feeds no row of the report.
C6_NoDustInReport ==
    /\ HasReport =>
         \A i \in 1..Len(Report.holdings) : Report.holdings[i].valueUsd > 1000
    /\ pc = "analyzed" =>
         \A k \in 1..Len(holdings) :
            holdings[k].valueUsd <= 1000 => ReportRowsOf(RowFor(holdings[k].symbol)) = {}

\* a Starknet request: a token worth exactly 0.01 USD reached the analyzer
\* beside one worth more, and only the latter is reported
C6_Witness ==
    /\ pc = "analyzed" /\ chain = "starknet"
    /\ \E k \in 1..Len(holdings) : holdings[k].valueUsd = 1000
    /\ Len(analysis.holdings) = 1

HoldingsOf(symbol) == {k \in 1..Len(holdings) : holdings[k].symbol = symbol}

RECURSIVE SumValue(_)
SumValue(ks) ==
    IF ks = {} THEN 0
    ELSE LET k == CHOOSE x \in ks : TRUE
         IN holdings[k].valueUsd + SumValue(ks \ {k})

RECURSIVE SumBalance(_)
SumBalance(ks) ==
    IF ks = {} THEN 0
    ELSE LET k == CHOOSE x \in ks : TRUE
         IN parseFloat(holdings[k].balance) + SumBalance(ks \ {k})

Aggregated == pc \in {"aggregated", "analyzed", "done"}

\* C7: the aggregator gives one row per distinct symbol of its input; the
\* row's value and balance are the sums over the holdings of that symbol, so
\* the values of the rows add up to the values of the input.
C7_OneRowPerSymbol ==
    Aggregated =>
        /\ {aggregatedHoldings[j].symbol : j \in 1..Len(aggregatedHoldings)}
             = {holdings[k].symbol : k \in 1..Len(holdings)}
        /\ \A i, j \in 1..Len(aggregatedHoldings) :
             aggregatedHoldings[i].symbol = aggregatedHoldings[j].symbol => i = j
        /\ \A j \in 1..Len(aggregatedHoldings) :
             /\ aggregatedHoldings[j].valueUsd = SumValue(HoldingsOf(aggregatedHoldings[j].symbol))
             /\ aggregatedHoldings[j].balance = SumBalance(HoldingsOf(aggregatedHoldings[j].symbol))
        /\ LET rowValue(row) == row.valueUsd
           IN SumOver(aggregatedHoldings, rowValue) = SumValue(1..Len(holdings))

\* a symbol held three times over at least two chains, beside another symbol
C7_Witness ==
    /\ Aggregated
    /\ Len(aggregatedHoldings) >= 2
    /\ \E j \in 1..Len(aggregatedHoldings) :
         /\ Cardinality(HoldingsOf(aggregatedHoldings[j].symbol)) >= 3
         /\ Len(aggregatedHoldings[j].chains) >= 2

\* the chain the k-th holding was fetched from
SourceChain(k) == IF holdings[k].chain = Undefined THEN chain ELSE holdings[k].chain

RECURSIVE ChainsInOrder(_, _)
\* the chains of the first n holdings that have `symbol`, each once, in order
\* of first appearance
ChainsInOrder(symbol, n) ==
    IF n = 0 THEN <<>>
    ELSE LET before == ChainsInOrder(symbol, n - 1)
         IN IF holdings[n].symbol = symbol /\ ~includes(before, SourceChain(n))
            THEN Append(before, SourceChain(n))
            ELSE before

\* C8: every aggregated row has a non-empty list of contributing chains, in
\* every request mode: the chains of the holdings of its symbol, each once,
\* in order of first appearance.
C8_ContributingChains ==
    Aggregated =>
        \A j \in 1..Len(aggregatedHoldings) :
            /\ aggregatedHoldings[j].chains # <<>>
            /\ aggregatedHoldings[j].chains
                 = ChainsInOrder(aggregatedHoldings[j].symbol, Len(holdings))

\* the same, for the requests whose holdings carry a chain tag
C8_ChainsWhenTagged ==
    (Aggregated /\ chain # "starknet") =>
        \A j \in 1..Len(aggregatedHoldings) :
            /\ aggregatedHoldings[j].chains # <<>>
            /\ aggregatedHoldings[j].chains
                 = ChainsInOrder(aggregatedHoldings[j].symbol, Len(holdings))

\* the holdings as the analyzer takes them when they are not aggregated
Unaggregated(hs) ==
    [k \in 1..Len(hs) |->
        [symbol |-> hs[k].symbol, balance |-> hs[k].balance, valueUsd |-> hs[k].valueUsd]]

DistinctSymbols(hs) == \A i, k \in 1..Len(hs) : hs[i].symbol = hs[k].symbol => i = k

\* C9: for a single-chain request whose holdings have distinct symbols,
\* aggregation changes nothing: row by row the same symbol, numeric balance
\* and value in the same order, and the report is the one of the list
\* analysed unaggregated.
C9_AggregationIdentity ==
    (pc = "analyzed" /\ chain # "all" /\ DistinctSymbols(holdings)) =>
        /\ Len(finalHoldings) = Len(holdings)
        /\ \A k \in 1..Len(holdings) :
             /\ finalHoldings[k].symbol = holdings[k].symbol
             /\ parseFloat(finalHoldings[k].balance) = parseFloat(holdings[k].balance)
             /\ finalHoldings[k].valueUsd = holdings[k].valueUsd
        /\ analysis = analyzePortfolio(Unaggregated(holdings))

\* two reports that differ at most in the text of their balances
SameUpToBalanceText(a, b) ==
    /\ [a EXCEPT !.holdings = <<>>] = [b EXCEPT !.holdings = <<>>]
    /\ Len(a.holdings) = Len(b.holdings)
    /\ \A i \in 1..Len(a.holdings) :
         /\ [a.holdings[i] EXCEPT !.balance = 0] = [b.holdings[i] EXCEPT !.balance = 0]
         /\ parseFloat(a.holdings[i].balance) = parseFloat(b.holdings[i].balance)

\* what holds of the code in place of C9: the two reports agree but for the
\* text of the balances, which the aggregation writes anew from the number
C9_IdentityUpToBalanceText ==
    (pc = "analyzed" /\ chain # "all" /\ DistinctSymbols(holdings)) =>
        /\ Len(finalHoldings) = Len(holdings)
        /\ \A k \in 1..Len(holdings) :
             /\ finalHoldings[k].symbol = holdings[k].symbol
             /\ parseFloat(finalHoldings[k].balance) = parseFloat(holdings[k].balance)
             /\ finalHoldings[k].valueUsd = holdings[k].valueUsd
        /\ SameUpToBalanceText(analysis, analyzePortfolio(Unaggregated(holdings)))

\* C10: categorizeToken maps the seven stablecoin tickers to stablecoin, the
\* five native ones to native, the nine defi ones to defi and every other
\* string to volatile; every holding of a report has the category of its
\* symbol, one of these four.
C10_CategoryTable ==
    /\ call.fn = "categorizeToken" =>
         /\ call.result = SpecCategory(call.symbol)
         /\ call.result \in {"stablecoin", "native", "defi", "volatile"}
    /\ HasReport =>
         \A i \in 1..Len(Report.holdings) :
            /\ Report.holdings[i].category = SpecCategory(Report.holdings[i].symbol)
            /\ Report.holdings[i].category \in {"stablecoin", "native", "defi", "volatile"}

\* a ticker spelled in lower case is volatile
C10_Witness ==
    /\ call.fn = "categorizeToken"
    /\ call.symbol = "usdc"
    /\ call.result = "volatile"

\* the symbols of the entries of hs worth v, in the order of hs
SymbolsWorth(hs, v) ==
    LET acc[i \in 0..Len(hs)] ==
            IF i = 0 THEN <<>>
            ELSE IF hs[i].valueUsd = v THEN Append(acc[i - 1], hs[i].symbol)
            ELSE acc[i - 1]
    IN acc[Len(hs)]

\* C11: the holdings of every report are in non-increasing order of valueUsd,
\* and the holdings of one valueUsd stand in the order they had in the list
\* given to analyzePortfolio.
C11_SortedDescendingStable ==
    HasReport =>
        LET out == Report.holdings
        IN /\ \A i \in 1..Len(out) - 1 : out[i].valueUsd >= out[i + 1].valueUsd
           /\ \A i \in 1..Len(out) :
                SymbolsWorth(out, out[i].valueUsd)
                    = SymbolsWorth(ReportInput, out[i].valueUsd)

\* a report where the sort moved a holding forward and where two holdings of
\* different symbols tie
C11_Witness ==
    /\ HasReport
    /\ LET out == Report.holdings
       IN /\ Len(out) = 3
          /\ out[1].valueUsd > out[2].valueUsd
          /\ out[2].valueUsd = out[3].valueUsd
          /\ out[2].symbol # out[3].symbol
          /\ ReportInput[3].symbol = out[1].symbol
          /\ ReportInput[3].valueUsd = out[1].valueUsd

\* generateAdvice has returned: in the handler, or in a direct call
AdviceGiven == pc = "done" \/ call.fn = "generateAdvice"
AdviceText == IF call.fn = "generateAdvice" THEN call.result ELSE advice
AdviceOutcome == IF call.fn = "generateAdvice" THEN call.outcome ELSE llm
AdvisedAnalysis == IF call.fn = "generateAdvice" THEN call.analysis ELSE analysis

\* C12: whatever the text generator does (a text, any text; a raise),
\* generateAdvice returns a non-empty advice.
C12_AdviceNeverEmpty ==
    AdviceGiven => AdviceText # ""

\* C12, what does hold: the advice is empty only when the generator answered
\* with the empty text, and a raise of the generator never reaches the handler.
C12_EmptyOnlyFromEmptyText ==
    /\ (AdviceGiven /\ AdviceText = "") => AdviceOutcome = Generated("")
    /\ pc = "failed" => llm = NotAsked

StartsWith(s, prefix) ==
    Len(s) >= Len(prefix) /\ SubSeq(s, 1, Len(prefix)) = prefix

\* the headline of the message of each tier
TierHeadline(level) ==
    CASE level = "very-high" -> "**High Risk Portfolio**"
      [] level = "high" -> "**Elevated Risk**"
      [] level = "medium" -> "**Balanced Risk**"
      [] level = "low" -> "**Conservative Portfolio**"

\* C13: when the text generator fails, the advice is the text of the fallback
\* composer for the analysis: not empty, and opening with the message of the
\* computed riskLevel and of no other tier.
C13_FallbackAdvice ==
    (AdviceGiven /\ ~AdviceOutcome.ok) =>
        /\ AdviceText # ""
        /\ AdviceText = generateFallbackAdvice(AdvisedAnalysis)
        /\ AdvisedAnalysis.riskLevel \in RiskTiers
        /\ \A level \in RiskTiers :
              StartsWith(AdviceText, TierHeadline(level))
                  <=> level = AdvisedAnalysis.riskLevel

\* the generator failed on a report of tier high
C13_Witness ==
    /\ AdviceGiven
    /\ ~AdviceOutcome.ok
    /\ AdvisedAnalysis.riskLevel = "high"
    /\ StartsWith(AdviceText, "**Elevated Risk**")

\* the handler is past the EVM fetches of an all-chains request
AllModeCollected ==
    chain = "all" /\ pc \in {"evm_done", "fetched", "aggregated", "analyzed", "done"}

\* the chains of the list whose fetch succeeded
SucceededChains == {i \in 1..Len(promises) : promises[i] # Pending /\ promises[i].ok}

\* the balances of the chains that succeeded, in the order of ALL_EVM_CHAINS
SucceededBalances ==
    LET acc[i \in 0..Len(promises)] ==
            IF i = 0 THEN <<>>
            ELSE IF i \in SucceededChains THEN Append(acc[i - 1], promises[i].balances)
            ELSE acc[i - 1]
    IN acc[Len(promises)]

\* the holdings of the chains that succeeded, chain after chain in the order
\* of ALL_EVM_CHAINS
SucceededHoldings ==
    LET acc[i \in 0..Len(promises)] ==
            IF i = 0 THEN <<>>
            ELSE IF i \in SucceededChains
                 THEN acc[i - 1] \o processEVMBalances(promises[i].balances, ethPrice,
                                                       ALL_EVM_CHAINS[i])
                 ELSE acc[i - 1]
    IN acc[Len(promises)]

\* the holdings the Starknet part of an all-chains request adds
StarknetPartInAll ==
    IF addressIsStarknet /\ pc \in {"fetched", "aggregated", "analyzed", "done"}
    THEN starknetHoldingsInAll(starknetBalances, ethPrice, tokenPrices)
    ELSE <<>>

\* C14: in all-chains mode the handler never raises, getAllEVMWalletBalances
\* returns exactly the balances of the chains that succeeded, one per chain in
\* chain-list order, a failed chain adds no holding, and the report is built
\* from the holdings of the chains that succeeded.
C14_FailedChainContributesNothing ==
    /\ chain = "all" => pc # "failed" /\ error = ""
    /\ AllModeCollected =>
         /\ evmBalances = SucceededBalances
         /\ Len(evmBalances) = Cardinality(SucceededChains)
         /\ \A k \in 1..Len(evmBalances) : \A j \in 1..Len(evmBalances) :
               evmBalances[k].chain = evmBalances[j].chain => k = j
         /\ holdings = SucceededHoldings \o StarknetPartInAll
         /\ \A k \in 1..Len(holdings) : \A i \in 1..Len(promises) :
               holdings[k].chain = ALL_EVM_CHAINS[i] => i \in SucceededChains
    /\ (chain = "all" /\ pc \in {"analyzed", "done"}) =>
         analysis = analyzePortfolio(toFinalHoldings(aggregate(
                        SucceededHoldings \o StarknetPartInAll)))

\* a report of an all-chains request where the first chain of the list
\* failed, a later one too, and two chains that succeeded have holdings
C14_Witness ==
    /\ chain = "all" /\ pc = "done"
    /\ ~promises[1].ok
    /\ \E i \in 3..Len(promises) : ~promises[i].ok
    /\ Cardinality({holdings[k].chain : k \in 1..Len(holdings)}) >= 2
    /\ Len(analysis.holdings) >= 2

\* every balance fetch of an all-chains request failed (the Starknet calls
\* too, when the address has the Starknet shape)
EveryFetchFailed ==
    /\ chain = "all"
    /\ Len(promises) = Len(ALL_EVM_CHAINS)
    /\ SucceededChains = {}
    /\ \A i \in 1..Len(promises) : promises[i] # Pending
    /\ addressIsStarknet =>
          /\ Len(balanceOf) = Len(STARKNET_TOKENS)
          /\ \A k \in StarkIndex : balanceOf[k] = <<>>

\* C15: an all-chains request whose every balance fetch failed ends with an
\* error; it never returns a report (with no holdings and totalValueUsd 0).
C15_TotalFailureIsError ==
    (chain = "all" /\ pc \in {"analyzed", "done"}) => ~EveryFetchFailed

\* C15, what the handler does instead: the report of such a request is the
\* empty one, and no error is raised.
C15_TotalFailureIsEmptyReport ==
    (pc = "done" /\ EveryFetchFailed) =>
        /\ analysis.holdings = <<>>
        /\ analysis.totalValueUsd = 0
        /\ error = ""

\* the handler is past the balance fetch of the request
PastFetch == pc \in {"fetched", "aggregated", "analyzed", "done", "failed"}

\* every balanceOf call of a Starknet request raised
EveryStarknetCallFailed ==
    /\ Len(balanceOf) = Len(STARKNET_TOKENS)
    /\ \A k \in StarkIndex : balanceOf[k] = <<>>

\* C16: a single-chain request (an EVM chain or starknet) whose every
\* balance-source call failed raises the error 'Failed to analyze wallet: '
\* followed by the cause, and returns no report.
C16_SingleChainFailureRaises ==
    /\ (chain \in SingleEVMChains /\ PastFetch /\ ~promises[1].ok) =>
          /\ pc = "failed"
          /\ error = "Failed to analyze wallet: " \o promises[1].message
    /\ (chain = "starknet" /\ PastFetch /\ EveryStarknetCallFailed) =>
          /\ pc = "failed"
          /\ error # ""

\* C16, the part that holds: on an EVM chain the failure of the fetch raises
\* the error with the cause, and no report is made.
C16_EVMFailureRaises ==
    /\ (chain \in SingleEVMChains /\ PastFetch /\ ~promises[1].ok) =>
          /\ pc = "failed"
          /\ error = "Failed to analyze wallet: " \o promises[1].message
          /\ finalHoldings = <<>> /\ llm = NotAsked /\ advice = ""
    /\ pc = "failed" =>
          \/ chain \in SingleEVMChains /\ ~promises[1].ok
          \/ chain = "starknet" /\ starknetError # ""

\* C16, what a Starknet request does instead: a report with no holdings
C16_StarknetFailureIsEmptyReport ==
    (chain = "starknet" /\ pc = "done" /\ EveryStarknetCallFailed) =>
        /\ analysis.holdings = <<>>
        /\ analysis.totalValueUsd = 0
        /\ error = ""

\* the report of an all-chains request as the outcomes of the fetches alone
\* determine it
ReportOfOutcomes ==
    analyzePortfolio(toFinalHoldings(aggregate(SucceededHoldings \o StarknetPartInAll)))

\* C17: the report of an all-chains request (holdings and their order, totals,
\* order of the contributing chains, risk fields) is determined by the
\* per-chain outcomes, whatever the order in which the fetches settled: the
\* value collected for a chain is that of its own fetch, and the holdings,
\* the aggregated rows, the order of their chains and the report are those
\* of the outcomes taken in chain-list order.
C17_CompletionOrderIrrelevant ==
    /\ (chain = "all" /\ pc = "fetching") =>
          \A i \in 1..Len(promises) :
             promises[i] # Pending => allResults[i] = wrapperValue(promises[i])
    /\ (chain = "all" /\ pc \in {"aggregated", "analyzed", "done"}) =>
        /\ holdings = SucceededHoldings \o StarknetPartInAll
        /\ aggregatedHoldings = aggregate(SucceededHoldings \o StarknetPartInAll)
        /\ \A j \in 1..Len(aggregatedHoldings) :
              \A a, b \in 1..Len(aggregatedHoldings[j].chains) :
                 LET pos(c) == CHOOSE i \in 1..Len(ALL_EVM_CHAINS) + 1 :
                                  IF c = "starknet" THEN i = Len(ALL_EVM_CHAINS) + 1
                                  ELSE ALL_EVM_CHAINS[i] = c
                 IN a < b => pos(aggregatedHoldings[j].chains[a])
                                < pos(aggregatedHoldings[j].chains[b])
        /\ pc \in {"analyzed", "done"} => analysis = ReportOfOutcomes

\* a report of an all-chains request whose fetches settled out of list order
\* and that has a row held on two chains
C17_Witness ==
    /\ chain = "all" /\ pc = "done"
    /\ settledOutOfOrder
    /\ \E j \in 1..Len(aggregatedHoldings) : Len(aggregatedHoldings[j].chains) >= 2
    /\ Len(analysis.holdings) >= 2

\* C18: while Promise.all is awaited every fetch has been issued, nothing is
\* normalised or aggregated before every fetch has settled, and a fetch that
\* failed leaves the other fetches as they are: a slot is null only by the
\* failure of its own fetch.
C18_IssuedTogetherAwaitedTogether ==
    /\ pc = "fetching" =>
          /\ Len(promises) = Len(ALL_EVM_CHAINS)
          /\ \A i \in 1..Len(promises) : promises[i] # Unissued
          /\ evmBalances = <<>> /\ holdings = <<>> /\ aggregatedHoldings = <<>>
    /\ (chain = "all" /\ pc \in {"fetching", "evm_done", "fetched", "aggregated",
                                 "analyzed", "done"}) =>
          \A i \in 1..Len(promises) :
             /\ allResults[i] = Pending <=> promises[i] = Pending
             /\ allResults[i] = Null <=> (promises[i] # Pending /\ ~promises[i].ok)
             /\ (promises[i] # Pending /\ promises[i].ok) =>
                   allResults[i] = promises[i].balances
    /\ AllModeCollected =>
          \A i \in 1..Len(promises) : promises[i] # Pending /\ promises[i] # Unissued

\* a fetch has failed while fetches of earlier and later chains are still
\* under way
C18_WitnessPendingSiblings ==
    /\ pc = "fetching"
    /\ \E i \in 2..(Len(promises) - 1) :
          /\ promises[i] # Pending /\ ~promises[i].ok
          /\ promises[i - 1] = Pending /\ promises[i + 1] = Pending

\* the fetches were awaited to the end although one failed first: a chain
\* after the failed one succeeded out of list order
C18_Witness ==
    /\ pc = "evm_done"
    /\ settledOutOfOrder
    /\ \E i \in 1..Len(promises) : ~promises[i].ok
    /\ \E i \in 1..Len(promises) : promises[i].ok
    /\ Len(evmBalances) >= 2

\* the symbols the EVM normalizer prices by a stablecoin or ETH override
EVMOverrides == {"USDC", "USDT", "DAI", "USDbC", "WETH", "ETH"}
\* the symbols the Starknet branches price by a stablecoin or ETH override
StarknetOverrides == {"USDC", "USDT", "DAI", "ETH"}

\* the handler has built its list of holdings
HoldingsBuilt == pc \in {"fetched", "aggregated", "analyzed", "done"}

\* the price the price source has for a Starknet token, 0 when it has none
KnownStarknetPrice(symbol) ==
    IF symbol \in DOMAIN tokenPrices THEN tokenPrices[symbol] ELSE 0

\* the report has a row for the ticker
Reported(symbol) ==
    \E j \in 1..Len(aggregatedHoldings) :
        /\ aggregatedHoldings[j].symbol = symbol
        /\ \E r \in 1..Len(analysis.holdings) :
              analysis.holdings[r].symbol = finalSymbol(aggregatedHoldings[j])

\* the Starknet entries with a known price are valued balance x price
StarknetPricedEntriesValued ==
    \A i \in 1..Len(starknetBalances) :
        LET t == starknetBalances[i]
            value == parseFloat(t.formattedBalance) * KnownStarknetPrice(t.symbol)
        IN (t.symbol \notin StarknetOverrides /\ value > DustThreshold) =>
              /\ \E n \in 1..Len(holdings) :
                    holdings[n].symbol = t.symbol /\ holdings[n].valueUsd = value
              /\ pc \in {"analyzed", "done"} => Reported(t.symbol)

\* C19: an entry without stablecoin or ETH override whose price p > 0 the
\* price source knows is valued balance x p, and is in the report when that
\* exceeds 0.01.
C19_PricedEntriesValued ==
    HoldingsBuilt =>
        /\ \A k \in 1..Len(evmBalances) : \A i \in 1..Len(evmBalances[k].tokenBalances) :
              LET t == evmBalances[k].tokenBalances[i]
              IN (t.symbol \notin EVMOverrides /\ usdValueOf(t) > DustThreshold) =>
                    /\ \E n \in 1..Len(holdings) :
                          /\ holdings[n].symbol = t.symbol
                          /\ holdings[n].chain = evmBalances[k].chain
                          /\ holdings[n].valueUsd = usdValueOf(t)
                    /\ pc \in {"analyzed", "done"} => Reported(t.symbol)
        /\ StarknetPricedEntriesValued

\* C19, the part that holds: the entries of the Starknet branches
C19_StarknetPricedEntriesValued ==
    HoldingsBuilt => StarknetPricedEntriesValued

\* no entry of the request with this symbol has an override or a price
Unpriced(symbol) ==
    /\ \A k \in 1..Len(evmBalances) : \A i \in 1..Len(evmBalances[k].tokenBalances) :
          LET t == evmBalances[k].tokenBalances[i]
          IN t.symbol = symbol => t.symbol \notin EVMOverrides /\ t.usdPrice = 0
    /\ \A i \in 1..Len(starknetBalances) :
          LET t == starknetBalances[i]
          IN t.symbol = symbol =>
                t.symbol \notin StarknetOverrides /\ KnownStarknetPrice(t.symbol) = 0

\* the symbols of the token entries of the request
EntrySymbols ==
    UNION {{evmBalances[k].tokenBalances[i].symbol :
                i \in 1..Len(evmBalances[k].tokenBalances)} : k \in 1..Len(evmBalances)}
    \cup {starknetBalances[i].symbol : i \in 1..Len(starknetBalances)}

\* an unpriced symbol of S is worth 0 and is not in the report
UnpricedHidden(S) ==
    \A s \in S :
        Unpriced(s) =>
            /\ \A n \in 1..Len(holdings) : holdings[n].symbol = s => holdings[n].valueUsd = 0
            /\ pc \in {"analyzed", "done"} => ~Reported(s)

\* C20: an entry with no resolvable price and no stablecoin or ETH override is
\* worth 0 and is not in the holdings of the report, in every mode.
C20_UnpricedEntriesHidden ==
    HoldingsBuilt => UnpricedHidden(EntrySymbols)

\* the symbols processEVMBalances prices by a constant of its own
HardCodedPrices == {"ARB", "HYPE"}

\* C20, the part that holds: every symbol but ARB and HYPE
C20_UnpricedHiddenUnlessHardCoded ==
    HoldingsBuilt => UnpricedHidden(EntrySymbols \ HardCodedPrices)

\* the entries of the symbols of S are valued balance x 1.0: an EVM entry
\* worth more than the dust threshold is a holding of that value on its
\* chain, a Starknet entry is a holding of that value (in all-chains mode
\* when above the dust threshold)
PinnedAtOne(S) ==
    /\ \A k \in 1..Len(evmBalances) : \A i \in 1..Len(evmBalances[k].tokenBalances) :
          LET t == evmBalances[k].tokenBalances[i]
              value == parseFloat(t.formattedBalance) * 100
          IN (t.symbol \in S /\ value > DustThreshold) =>
                \E n \in 1..Len(holdings) :
                   /\ holdings[n].symbol = t.symbol
                   /\ holdings[n].chain = evmBalances[k].chain
                   /\ holdings[n].valueUsd = value
    /\ \A i \in 1..Len(starknetBalances) :
          LET t == starknetBalances[i]
              value == parseFloat(t.formattedBalance) * 100
          IN (t.symbol \in S /\ (chain = "all" => value > DustThreshold)) =>
                \E n \in 1..Len(holdings) :
                   holdings[n].symbol = t.symbol /\ holdings[n].valueUsd = value

\* C21: every token whose symbol is in the stablecoin list of the category
\* table (USDC, USDT, DAI, FRAX, LUSD, USDbC, BUSD) is valued balance x 1.0 by
\* the normalizer on every chain.
C21_StablecoinsPinned ==
    HoldingsBuilt => PinnedAtOne(SpecStablecoins)

\* C21, the part that holds: the four symbols of the list of
\* processEVMBalances (the three of them Starknet has)
C21_OverrideListPinned ==
    HoldingsBuilt => PinnedAtOne({"USDC", "USDT", "DAI", "USDbC"})

\* the native coins of the request that are not ETH: the chains of evmBalances
\* whose nativeSymbol is another coin
NonEthNativeChains ==
    {evmBalances[k].chain : k \in {n \in 1..Len(evmBalances) :
                                      evmBalances[n].nativeBalance.symbol # "ETH"}}

\* C22: only ETH and wrapped ETH are reported under an ETH ticker and valued
\* at the ETH price: the native coin of a chain whose native symbol is not ETH
\* (POL on polygon, xDAI on gnosis) gives no holding named ETH.
C22_EthTickerOnlyForEth ==
    HoldingsBuilt =>
        \A n \in 1..Len(holdings) :
            holdings[n].symbol = "ETH" => holdings[n].chain \notin NonEthNativeChains

\* C22, the part that holds: a holding named ETH or WETH is worth
\* balance x ethPrice
C22_EthTickerAtEthPrice ==
    HoldingsBuilt =>
        \A n \in 1..Len(holdings) :
            holdings[n].symbol \in {"ETH", "WETH"} =>
                holdings[n].valueUsd = parseFloat(holdings[n].balance) * ethPrice

\* a request is under way
RequestUnderWay == pc \notin {"idle", "done", "failed"}
\* the request has ended with a report or with an error
RequestEnded == pc \in {"done", "failed"}

\* C23: every request eventually ends with a report or an error, even when a
\* balance fetch or a price-source call never responds.
C23_RequestEnds == RequestUnderWay ~> RequestEnded

\* C23, what holds: the await of Promise.all is never stuck by itself; while
\* it lasts a fetch is still pending, and once none is it is fulfilled
C23_AwaitOnlyOnPending ==
    pc = "fetching" =>
        \/ \E i \in 1..Len(promises) : promises[i] = Pending
        \/ allSettled(allResults)

-----------------------------------------------------------------------------
\* The price source

\* the call of the price source raised
PriceCallFailed(response) == response = PriceFailure

\* the call of the price source was answered
PriceCallAnswered(response) == response # NotCalled /\ response # PriceFailure

\* the tickers of the Starknet tokens the handler asked prices for
AskedTokens == {starknetBalances[i].symbol : i \in 1..Len(starknetBalances)}

\* C24: a failure of the price source never aborts the request.
\* getEthPrice gives 0 when its call raised; getTokenPrices gives a map with
\* an entry for exactly the asked tokens the source knows, the empty map when
\* its call raised; the request fails only on a balance fetch that raised,
\* and the holdings the failed call was to price are valued 0.
C24_PriceFailureNeverAborts ==
    /\ PriceCallFailed(priceSource.eth) => ethPrice = 0
    /\ PriceCallAnswered(priceSource.eth) => ethPrice = priceSource.eth.coins["ETH"]
    /\ PriceCallFailed(priceSource.tokens) => DOMAIN tokenPrices = {}
    /\ PriceCallAnswered(priceSource.tokens) =>
          /\ DOMAIN tokenPrices = AskedTokens \cap DOMAIN priceSource.tokens.coins
          /\ \A s \in DOMAIN tokenPrices : tokenPrices[s] = priceSource.tokens.coins[s]
    /\ pc = "failed" =>
          \/ chain \in SingleEVMChains /\ promises # <<>> /\ ~promises[1].ok
          \/ chain = "starknet" /\ starknetError = StarknetFailure.message
    /\ (HoldingsBuilt /\ PriceCallFailed(priceSource.eth)) =>
          \A n \in 1..Len(holdings) :
              holdings[n].symbol \in {"ETH", "WETH"} => holdings[n].valueUsd = 0
    /\ (HoldingsBuilt /\ PriceCallFailed(priceSource.tokens)) =>
          \A n \in 1..Len(holdings) :
              (holdings[n].chain \in {"starknet", Undefined}
               /\ holdings[n].symbol \notin StarknetOverrides) => holdings[n].valueUsd = 0

\* a Starknet request got its report although both calls of the price source
\* raised: STRK is held and valued 0
C24_Witness ==
    /\ pc = "done" /\ chain = "starknet"
    /\ PriceCallFailed(priceSource.eth) /\ PriceCallFailed(priceSource.tokens)
    /\ \E k \in 1..Len(finalHoldings) :
          finalHoldings[k].symbol = "STRK" /\ finalHoldings[k].valueUsd = 0

-----------------------------------------------------------------------------
\* The decimal string of a Starknet balance

\* the digits of a number without its leading zeros
Canonical(ds) ==
    LET first == CHOOSE i \in 1..Len(ds) :
                    /\ ds[i] # 0 \/ i = Len(ds)
                    /\ \A j \in 1..(i - 1) : ds[j] = 0
    IN SubSeq(ds, first, Len(ds))

\* the base units a decimal string stands for: its digits, the fraction
\* padded with zeros to the decimals count
toBaseUnits(s, decimals) ==
    Canonical(s.int \o s.frac \o Zeros(decimals - Len(s.frac)))

\* a balance with its last n digits replaced by zeros
TruncateLast(ds, n) ==
    Canonical([i \in 1..Len(ds) |-> IF i > Len(ds) - n THEN 0 ELSE ds[i]])

\* formatBalance has been called directly
FormatBalanceCalled == call.fn = "formatBalance"

\* C25: converting formatBalance(balance, decimals) back to base units with
\* the same decimals gives balance again, for every balance and every
\* decimals count of the token list.
C25_FormatBalanceRoundTrip ==
    FormatBalanceCalled => toBaseUnits(call.result, call.decimals) = call.balance

\* C25, the part that holds: the string has the integer part and the first
\* six fractional digits, so the round trip is exact for a token of at most
\* six decimals and loses the digits after the sixth for the others
C25_RoundTripToSixDigits ==
    FormatBalanceCalled =>
        toBaseUnits(call.result, call.decimals) =
            TruncateLast(call.balance, IF call.decimals > 6 THEN call.decimals - 6 ELSE 0)

\* the round trip of a balance with a digit after the sixth fractional one
C25_WitnessLostDigits ==
    /\ FormatBalanceCalled
    /\ call.decimals = 18 /\ call.balance = <<1>>
    /\ call.result = Dec(<<0>>, Zeros(6))

-----------------------------------------------------------------------------
\* The total of a report and its rows

\* the sum of valueUsd over the rows of the report
ListedValueUsd ==
    LET value(h) == h.valueUsd
    IN SumOver(Report.holdings, value)

\* the sum of valueUsd over the input of the report
InputValueUsd ==
    LET value(h) == h.valueUsd
    IN SumOver(ReportInput, value)

\* the sum of valueUsd over the entries of the input at or below the dust
\* threshold
DustValueUsd ==
    LET value(h) == IF IsDustFree(h) THEN 0 ELSE h.valueUsd
    IN SumOver(ReportInput, value)

\* C26: in every report totalValueUsd equals the sum of valueUsd over the
\* holdings listed in that report, for every input list, the ones with
\* entries at or below the dust threshold included.
C26_TotalIsSumOfRows ==
    HasReport => Report.totalValueUsd = ListedValueUsd

\* C26, the part that holds: totalValueUsd is the sum over the input, and
\* exceeds the sum over the rows by the value of the dust entries
C26_TotalIsSumOfInput ==
    HasReport =>
        /\ Report.totalValueUsd = InputValueUsd
        /\ Report.totalValueUsd = ListedValueUsd + DustValueUsd

\* a report of the handler whose input has an entry of positive value at or
\* below the dust threshold
C26_WitnessDustInTotal ==
    /\ pc = "done"
    /\ DustValueUsd > 0
    /\ Report.holdings # <<>>

-----------------------------------------------------------------------------
\* The concentration alert

\* the rows of an analysis that exceed 50%
Concentrated(a) == {i \in 1..Len(a.holdings) : isConcentrated(a.holdings[i])}

Contains(s, part) ==
    \E i \in 1..(Len(s) - Len(part) + 1) : SubSeq(s, i, i + Len(part) - 1) = part

\* the alert that names a row with its percentage
AlertFor(h) ==
    "**Concentration Alert**: " \o h.symbol \o " represents "
        \o toFixed1(h.percentage) \o "% of your portfolio."

\* C27: whenever concentrationRisk is true in an analysis of analyzePortfolio
\* the holdings are not empty, at most one holding exceeds 50% and it is the
\* first one; the alert of the fallback composer names the holding that
\* exceeds 50% with its percentage.
C27_ConcentrationAlertNamesTop ==
    /\ (HasReport /\ Report.concentrationRisk) =>
          /\ Report.holdings # <<>>
          /\ Concentrated(Report) = {1}
    /\ (AdviceGiven /\ ~AdviceOutcome.ok) =>
          IF AdvisedAnalysis.concentrationRisk
          THEN /\ Cardinality(Concentrated(AdvisedAnalysis)) = 1
               /\ \A i \in Concentrated(AdvisedAnalysis) :
                     Contains(AdviceText, AlertFor(AdvisedAnalysis.holdings[i]))
          ELSE ~Contains(AdviceText, "Concentration Alert")

\* the handler fell back on the composer for a report of several rows, one of
\* them above 50%
C27_Witness ==
    /\ pc = "done" /\ ~llm.ok
    /\ analysis.concentrationRisk
    /\ Len(analysis.holdings) >= 2
    /\ Contains(advice, AlertFor(analysis.holdings[1]))

-----------------------------------------------------------------------------
\* A portfolio of nothing but dust

\* no entry of the input of the report is above the dust threshold
NothingAboveDust == \A i \in 1..Len(ReportInput) : ~IsDustFree(ReportInput[i])

\* a percentage that is a number (no division by zero made it) and is 0
IsZeroPercent(p) == p.den > 0 /\ p.num = 0

\* C28: for an input with no holding above the dust threshold (the empty
\* list, or values <= 0.01 only) analyzePortfolio does not divide by zero and
\* returns empty holdings, stablecoinPercentage 0, volatilePercentage 0,
\* concentrationRisk false and riskLevel very-high; the handler returns this
\* as a successful report.
C28_DustOnlyPortfolio ==
    (HasReport /\ NothingAboveDust) =>
        /\ Report.holdings = <<>>
        /\ IsZeroPercent(Report.stablecoinPercentage)
        /\ IsZeroPercent(Report.volatilePercentage)
        /\ ~Report.concentrationRisk
        /\ Report.riskLevel = "very-high"
        /\ pc \in {"analyzed", "done"} => error = "" /\ analysis = Report

\* the handler returned the report of a Starknet wallet that holds dust only
C28_Witness ==
    /\ pc = "done" /\ chain = "starknet"
    /\ finalHoldings # <<>>
    /\ NothingAboveDust
    /\ analysis.holdings = <<>>
    /\ analysis.totalValueUsd > 0
    /\ analysis.riskLevel = "very-high"

\* the handler returned the report of a wallet that holds nothing
C28_WitnessEmpty ==
    /\ pc = "done"
    /\ finalHoldings = <<>>
    /\ analysis.totalValueUsd = 0
    /\ IsZeroPercent(analysis.stablecoinPercentage)

-----------------------------------------------------------------------------
\* The Starknet step of the all-chains mode

\* the handler is past the Starknet step of an all-chains request
PastStarknetStep == chain = "all" /\ pc \in {"fetched", "aggregated", "analyzed", "done"}

\* the Starknet step called getStarknetWalletBalances
StarknetQueried == balanceOf # <<>> \/ starknetError # ""

\* the address begins with 0x and has more than 42 characters
StarknetShaped == address.prefix0x /\ address.length > 42

\* C29: in the all-chains mode Starknet is queried exactly when the address
\* starts with 0x and is longer than 42 characters; when the Starknet step
\* raises, the error is swallowed and the report is built from the EVM
\* holdings alone; the EVM chains are queried whatever the address.
C29_StarknetStepInAll ==
    /\ PastStarknetStep => (StarknetQueried <=> StarknetShaped)
    /\ (chain = "all" /\ pc \in {"evm_done", "fetched", "aggregated", "analyzed", "done"}) =>
          /\ Len(promises) = Len(ALL_EVM_CHAINS)
          /\ \A i \in 1..Len(promises) : promises[i] # Pending
    /\ (PastStarknetStep /\ starknetError # "") =>
          /\ error = ""
          /\ holdings = SucceededHoldings
          /\ pc \in {"analyzed", "done"} =>
                analysis = analyzePortfolio(toFinalHoldings(aggregate(SucceededHoldings)))
    /\ (PastStarknetStep /\ ~StarknetQueried) => holdings = SucceededHoldings
    /\ (chain = "all" /\ pc = "evm_done") => holdings = SucceededHoldings
    /\ chain = "all" => pc # "failed"

\* an all-chains request for a Starknet-shaped address ended with a report of
\* its EVM holdings after the Starknet step raised
C29_Witness ==
    /\ pc = "done" /\ chain = "all"
    /\ StarknetShaped
    /\ starknetError # ""
    /\ error = ""
    /\ analysis.holdings # <<>>

\* an all-chains request for 64 hexadecimal digits without 0x: the EVM chains
\* were queried, Starknet was not
C29_WitnessNoPrefix ==
    /\ pc = "done" /\ chain = "all"
    /\ ~address.prefix0x /\ address.length > 42
    /\ ~StarknetQueried
    /\ Len(promises) = Len(ALL_EVM_CHAINS)

=============================================================================
